---- MODULE Spec2Model ----
(***************************************************************************)
(* A model of texpect_cisco.cisco.Cisco: the session driver (login,        *)
(* enable, run_command, exit) and the output classifier                    *)
(* (_process_command_result, _process_device_errors).                      *)
(*                                                                         *)
(* Text is a sequence of one-character strings, so that strip, startswith, *)
(* find, split and join do what the Python str methods do.                 *)
(***************************************************************************)
EXTENDS Integers, Sequences, FiniteSets, TLC

\* Bound: the number of lines of a text the device may send during one wait.
MaxLines == 2

\* The longest response, in lines, the output classifier is applied to on its own.
MaxResponseLines == 4

\* Python's None: no text equals it, since every text holds one-character strings.
None == <<"None">>

(***************************************************************************)
(* Python str and list primitives                                          *)
(***************************************************************************)

\* The characters str.strip() and str.lstrip() remove when called without arguments.
Whitespace == {" ", "\t", "\n", "\r"}

RECURSIVE lstrip(_)
lstrip(s) ==
    IF s # <<>> /\ Head(s) \in Whitespace THEN lstrip(Tail(s)) ELSE s

RECURSIVE rstrip(_)
rstrip(s) ==
    IF s # <<>> /\ s[Len(s)] \in Whitespace
    THEN rstrip(SubSeq(s, 1, Len(s) - 1))
    ELSE s

strip(s) == lstrip(rstrip(s))

startswith(s, prefix) ==
    Len(prefix) <= Len(s) /\ SubSeq(s, 1, Len(prefix)) = prefix

\* str.find: the 0-based index of the first occurrence of sub in s, or -1.
find(s, sub) ==
    LET At == {i \in 1..(Len(s) - Len(sub) + 1) : SubSeq(s, i, i + Len(sub) - 1) = sub}
    IN  IF At = {} THEN -1 ELSE (CHOOSE i \in At : \A j \in At : i <= j) - 1

\* seq[lo:hi] with Python's treatment of negative and out-of-range indices.
PySlice(s, lo, hi) ==
    LET Norm(i) == IF i < 0
                   THEN (IF i + Len(s) < 0 THEN 0 ELSE i + Len(s))
                   ELSE (IF i > Len(s) THEN Len(s) ELSE i)
    IN  SubSeq(s, Norm(lo) + 1, Norm(hi))

\* data.split('\n'): the empty text splits into one empty line.
RECURSIVE split(_)
split(s) ==
    LET nl == find(s, <<"\n">>)
    IN  IF nl = -1 THEN <<s>>
        ELSE <<SubSeq(s, 1, nl)>> \o split(SubSeq(s, nl + 2, Len(s)))

\* '\n'.join(lines)
RECURSIVE join(_)
join(lines) ==
    IF lines = <<>> THEN <<>>
    ELSE IF Len(lines) = 1 THEN lines[1]
    ELSE lines[1] \o <<"\n">> \o join(Tail(lines))

(***************************************************************************)
(* The Device mapping of the session (the keys the driver reads)           *)
(***************************************************************************)

Device(paging) ==
    [ id                     |-> <<"d", "e", "v", "i", "c", "e">>,
      password_prompt        |-> <<"P", "a", "s", "s", "w", "o", "r", "d", ":">>,
      password               |-> <<"p", "4", "s", "s", "w", "0", "r", "D">>,
      prompt                 |-> <<"d", "e", "v", "i", "c", "e", ">">>,
      enabled_prompt         |-> <<"d", "e", "v", "i", "c", "e", "#">>,
      enable_command         |-> <<"e", "n", "a", "b", "l", "e">>,
      enable_password_prompt |-> <<"P", "W", ":">>,
      enable_password        |-> <<"s", "3", "c", "r", "e", "t">>,
      disable_paging         |-> paging,
      disable_paging_command |-> <<"t", "e", "r", "m", "i", "n", "a", "l", " ",
                                   "l", "e", "n", "g", "t", "h", " ", "0">> ]

Devices == {Device(p) : p \in BOOLEAN}

\* A key the Device mapping does not hold: device[key] raises KeyError.
Absent == <<"absent">>

\* The keys an operation of the driver subscripts the mapping with.
RequiredKeys ==
    {"password_prompt", "password", "prompt", "enabled_prompt", "enable_command",
     "enable_password_prompt", "enable_password"}

\* The mappings that lack one of these keys (paging is not requested).
DevicesMissingKey ==
    {[Device(FALSE) EXCEPT ![k] = Absent] : k \in RequiredKeys}

(***************************************************************************)
(* Inputs: the commands a caller runs, the prompt overrides it passes and  *)
(* the text the device sends                                               *)
(***************************************************************************)

CmdShowRun == <<"s", "h", "o", "w", " ", "r", "u", "n">>
CmdShPadded == <<" ", "s", "h", "\n">>
CmdExit == <<"e", "x", "i", "t">>

Commands == {CmdShowRun, CmdShPadded}

PromptOverride == <<"p", "r", "o", "m", "p", "t", ">">>
PromptArgs == {None, PromptOverride}

LineEmpty == <<>>
LineEcho == <<"s", "h">>
LineCaret == <<" ", "^">>
LineErrPlain == <<"%", " ", "b", "a", "d">>
LineErrMarker == <<"%", " ", "a", "t", " ", "'", "^", "'", " ", "m", "a", "r", "k", "e", "r">>

Vocabulary == {LineEmpty, LineEcho, LineCaret, LineErrPlain, LineErrMarker}

\* A line that holds '%' but does not begin with it.
LineUsage == <<"1", "0", "%">>

\* The echoed command twice, without anything between.
LineEchoTwice == <<"s", "h", "s", "h">>

\* The responses the output classifier is applied to on its own, as lines.
Responses ==
    UNION {[1..n -> Vocabulary \cup {LineUsage, LineEchoTwice}] : n \in 1..MaxResponseLines}

\* "show run\nSome command output\n" (basic_tests.py, test_command and spec section 8)
TextShowRun ==
    <<"s", "h", "o", "w", " ", "r", "u", "n", "\n", "S", "o", "m", "e", " ",
      "c", "o", "m", "m", "a", "n", "d", " ", "o", "u", "t", "p", "u", "t", "\n">>

\* "sh\n ^\n% at '^' marker\n\n": an echoed command, a caret line, the error line
\* and an empty line (the banner of basic_tests.py, test_error_with_marker)
TextMarkerBanner ==
    join(<<LineEcho, LineCaret, LineErrMarker, LineEmpty, LineEmpty>>)

Examples == {TextShowRun, TextMarkerBanner}

Texts ==
    {join(ls) : ls \in UNION {[1..n -> Vocabulary] : n \in 1..MaxLines}} \cup Examples

(***************************************************************************)
(* Outcomes: what a Deferred of the driver is fired with                   *)
(***************************************************************************)

Success(value) ==
    [ok |-> TRUE, type |-> "result", command |-> None, data |-> value, error |-> None]

\* TExpectCiscoError.__init__ / CiscoCommandError.__init__: command, data and
\* error default to None.
Failure(type, command, data, error) ==
    [ok |-> FALSE, type |-> type, command |-> command, data |-> data, error |-> error]

\* The failures of the stream engine: an instance carries the data read so far.
RequestTimeout(data) == Failure("RequestTimeout", None, data, None)
RequestInterruptedByConnectionLoss(data) ==
    Failure("RequestInterruptedByConnectionLoss", None, data, None)

\* A failure of the engine that does not derive from RequestFailed.
OtherFailure == Failure("Exception", None, None, None)

\* failure.check(cls): RequestTimeout and RequestInterruptedByConnectionLoss
\* derive from RequestFailed; the driver's own errors do not.
check(failure, cls) ==
    \/ failure.type = cls
    \/ /\ cls = "RequestFailed"
       /\ failure.type \in {"RequestTimeout", "RequestInterruptedByConnectionLoss"}

\* The KeyError of a subscript with a key the mapping does not hold.
KeyError == Failure("KeyError", None, None, None)

Pending == [ok |-> FALSE, type |-> "pending", command |-> None, data |-> None, error |-> None]

(***************************************************************************)
(* The output classifier                                                   *)
(***************************************************************************)

NoError == [found |-> FALSE, error_lines |-> <<>>, data_lines |-> <<>>]

\* Mutant: a line is an error line when it holds '%' anywhere.
_process_device_errors_anywhere(data) ==
    LET lines == split(data)
        Hits  == {i \in 1..Len(lines) : find(lines[i], <<"%">>) # -1}
    IN  IF Hits = {} THEN NoError
        ELSE LET ind  == (CHOOSE i \in Hits : \A j \in Hits : i <= j) - 1
                 line == lines[ind + 1]
             IN  IF find(line, <<"'", "^", "'", " ", "m", "a", "r", "k", "e", "r">>) # -1
                 THEN [found       |-> TRUE,
                       error_lines |-> PySlice(lines, ind - 1, ind + 2),
                       data_lines  |-> PySlice(lines, 0, ind - 1)
                                         \o PySlice(lines, ind + 2, Len(lines))]
                 ELSE [found       |-> TRUE,
                       error_lines |-> PySlice(lines, ind, ind + 1),
                       data_lines  |-> PySlice(lines, 0, ind)
                                         \o PySlice(lines, ind + 1, Len(lines))]

\* Mutant: every error line is taken to come with a '^' marker line.
_process_device_errors_marker_always(data) ==
    LET lines == split(data)
        Hits  == {i \in 1..Len(lines) : startswith(lines[i], <<"%">>)}
    IN  IF Hits = {} THEN NoError
        ELSE LET ind  == (CHOOSE i \in Hits : \A j \in Hits : i <= j) - 1
                 line == lines[ind + 1]
             IN  IF find(line, <<"%">>) # -1
                 THEN [found       |-> TRUE,
                       error_lines |-> PySlice(lines, ind - 1, ind + 2),
                       data_lines  |-> PySlice(lines, 0, ind - 1)
                                         \o PySlice(lines, ind + 2, Len(lines))]
                 ELSE [found       |-> TRUE,
                       error_lines |-> PySlice(lines, ind, ind + 1),
                       data_lines  |-> PySlice(lines, 0, ind)
                                         \o PySlice(lines, ind + 1, Len(lines))]

\* The 2-tuple (error_lines, data_lines), or None when no line starts with '%'.
\* Mutant: the last line that begins with '%' is taken, not the first.
_process_device_errors_last_hit(data) ==
    LET lines == split(data)
        Hits  == {i \in 1..Len(lines) : startswith(lines[i], <<"%">>)}
    IN  IF Hits = {} THEN NoError
        ELSE LET ind  == (CHOOSE i \in Hits : \A j \in Hits : i >= j) - 1
                 line == lines[ind + 1]
             IN  IF find(line, <<"'", "^", "'", " ", "m", "a", "r", "k", "e", "r">>) # -1
                 THEN [found       |-> TRUE,
                       error_lines |-> PySlice(lines, ind - 1, ind + 2),
                       data_lines  |-> PySlice(lines, 0, ind - 1)
                                         \o PySlice(lines, ind + 2, Len(lines))]
                 ELSE [found       |-> TRUE,
                       error_lines |-> PySlice(lines, ind, ind + 1),
                       data_lines  |-> PySlice(lines, 0, ind)
                                         \o PySlice(lines, ind + 1, Len(lines))]

_process_device_errors(data) ==
    LET lines == split(data)
        Hits  == {i \in 1..Len(lines) : startswith(lines[i], <<"%">>)}
    IN  IF Hits = {} THEN NoError
        ELSE LET ind  == (CHOOSE i \in Hits : \A j \in Hits : i <= j) - 1
                 line == lines[ind + 1]
             IN  IF find(line, <<"'", "^", "'", " ", "m", "a", "r", "k", "e", "r">>) # -1
                 THEN [found       |-> TRUE,
                       error_lines |-> PySlice(lines, ind - 1, ind + 2),
                       data_lines  |-> PySlice(lines, 0, ind - 1)
                                         \o PySlice(lines, ind + 2, Len(lines))]
                 ELSE [found       |-> TRUE,
                       error_lines |-> PySlice(lines, ind, ind + 1),
                       data_lines  |-> PySlice(lines, 0, ind)
                                         \o PySlice(lines, ind + 1, Len(lines))]

\* Mutant: the whitespace after the echoed command is kept.
_process_command_result_no_lstrip(res, cmd, strip_command, strip_prompt, process_errors) ==
    LET data0 == res[3]
        data1 == IF strip_prompt THEN PySlice(data0, 0, res[2]) ELSE data0
        data2 == strip(data1)
        data  == IF strip_command /\ startswith(data2, cmd)
                 THEN PySlice(data2, Len(cmd), Len(data2))
                 ELSE data2
        error == _process_device_errors(data)
    IN  IF process_errors /\ error.found
        THEN Failure("CiscoCommandError", cmd, data, join(error.error_lines))
        ELSE Success(data)

\* Mutant: the error carries the lines that survive the excision of the banner.
_process_command_result_excised(res, cmd, strip_command, strip_prompt, process_errors) ==
    LET data0 == res[3]
        data1 == IF strip_prompt THEN PySlice(data0, 0, res[2]) ELSE data0
        data2 == strip(data1)
        data  == IF strip_command /\ startswith(data2, cmd)
                 THEN lstrip(PySlice(data2, Len(cmd), Len(data2)))
                 ELSE data2
        error == _process_device_errors(data)
    IN  IF process_errors /\ error.found
        THEN Failure("CiscoCommandError", cmd, join(error.data_lines), join(error.error_lines))
        ELSE Success(data)

\* Mutant: the command is removed again when the rest begins with it too.
_process_command_result_strips_again(res, cmd, strip_command, strip_prompt, process_errors) ==
    LET data0 == res[3]
        data1 == IF strip_prompt THEN PySlice(data0, 0, res[2]) ELSE data0
        data2 == strip(data1)
        data3 == IF strip_command /\ startswith(data2, cmd)
                 THEN lstrip(PySlice(data2, Len(cmd), Len(data2)))
                 ELSE data2
        data  == IF strip_command /\ startswith(data2, cmd) /\ startswith(data3, cmd)
                 THEN lstrip(PySlice(data3, Len(cmd), Len(data3)))
                 ELSE data3
        error == _process_device_errors(data)
    IN  IF process_errors /\ error.found
        THEN Failure("CiscoCommandError", cmd, data, join(error.error_lines))
        ELSE Success(data)

\* res is the result of expect: <<pattern index, start of the match, data>>.
_process_command_result(res, cmd, strip_command, strip_prompt, process_errors) ==
    LET data0 == res[3]
        data1 == IF strip_prompt THEN PySlice(data0, 0, res[2]) ELSE data0
        data2 == strip(data1)
        data  == IF strip_command /\ startswith(data2, cmd)
                 THEN lstrip(PySlice(data2, Len(cmd), Len(data2)))
                 ELSE data2
        error == _process_device_errors(data)
    IN  IF process_errors /\ error.found
        THEN Failure("CiscoCommandError", cmd, data, join(error.error_lines))
        ELSE Success(data)

\* Mutant: the _may_disconnect flag is not consulted, every connection loss is accepted.
_on_command_error_always_accepts(failure, cmd, strip_command, strip_prompt, process_errors, _may_disconnect) ==
    IF ~check(failure, "RequestFailed") THEN failure
    ELSE IF check(failure, "RequestInterruptedByConnectionLoss")
    THEN _process_command_result(<<None, None, failure.data>>, cmd,
                                 strip_command, FALSE, process_errors)
    ELSE Failure("UnexpectedResultError", None, None, None)

\* Mutant: the branch for an expected connection loss is missing.
_on_command_error_never_accepts(failure, cmd, strip_command, strip_prompt, process_errors, _may_disconnect) ==
    IF ~check(failure, "RequestFailed") THEN failure
    ELSE IF check(failure, "RequestInterruptedByConnectionLoss")
    THEN Failure("Disconnected", cmd, failure.data, None)
    ELSE Failure("UnexpectedResultError", None, None, None)

\* Mutant: the kind of the failure is not checked, a timeout is handled as a
\* connection loss.
_on_command_error_unchecked(failure, cmd, strip_command, strip_prompt, process_errors, _may_disconnect) ==
    IF ~check(failure, "RequestFailed") THEN failure
    ELSE IF _may_disconnect
    THEN _process_command_result(<<None, None, failure.data>>, cmd,
                                 strip_command, FALSE, process_errors)
    ELSE Failure("Disconnected", cmd, failure.data, None)

\* Mutant: the failure is handled without failure.trap(RequestFailed).
_on_command_error_untrapped(failure, cmd, strip_command, strip_prompt, process_errors, _may_disconnect) ==
    IF check(failure, "RequestInterruptedByConnectionLoss")
    THEN IF _may_disconnect
         THEN _process_command_result(<<None, None, failure.data>>, cmd,
                                      strip_command, FALSE, process_errors)
         ELSE Failure("Disconnected", cmd, failure.data, None)
    ELSE Failure("UnexpectedResultError", None, None, None)

_on_command_error(failure, cmd, strip_command, strip_prompt, process_errors, _may_disconnect) ==
    IF ~check(failure, "RequestFailed") THEN failure
    ELSE IF check(failure, "RequestInterruptedByConnectionLoss")
    THEN IF _may_disconnect
         THEN _process_command_result(<<None, None, failure.data>>, cmd,
                                      strip_command, FALSE, process_errors)
         ELSE Failure("Disconnected", cmd, failure.data, None)
    ELSE Failure("UnexpectedResultError", None, None, None)

(***************************************************************************)
(* login and enable: the errbacks and the prompt selection                 *)
(***************************************************************************)

\* Mutant: the timeout is passed on as it came.
_no_password_prompt_passes(failure) == failure

\* failure.trap(RequestTimeout): any other failure goes on unchanged.
_no_password_prompt(failure) ==
    IF ~check(failure, "RequestTimeout") THEN failure
    ELSE Failure("UnexpectedResultError", None, failure.data, None)

\* Mutant: the failed login is reported as an unexpected result.
_on_login_failure_unexpected(failure) ==
    IF ~check(failure, "RequestFailed") THEN failure
    ELSE Failure("UnexpectedResultError", None, failure.data, None)

_on_login_failure(failure) ==
    IF ~check(failure, "RequestFailed") THEN failure
    ELSE Failure("LoginFailed", None, failure.data, None)

\* Mutant: every failure of the chain is turned into EnableFailed.
_on_enable_failure_remaps_all(failure) ==
    Failure("EnableFailed", None, failure.data, None)

_on_enable_failure(failure) ==
    IF ~check(failure, "RequestFailed") THEN failure
    ELSE Failure("EnableFailed", None, failure.data, None)

(***************************************************************************)
(* The session                                                             *)
(***************************************************************************)

VARIABLES
    device,     \* the Device mapping the session was constructed with
    eof,        \* TExpect.eof: the transport has closed
    enabled,    \* Cisco.enabled: the session is in privileged EXEC mode
    pc,         \* "idle", the wait the operation in flight is suspended at, or "done"
    op,         \* the operation in flight, or the last one that settled
    call,       \* the arguments of the command cycle of that operation
    written,    \* what that operation has written to the transport, in order
    waited,     \* the patterns that operation has waited for, in order
    event,      \* how the engine ended the last wait
    result,     \* what the operation's Deferred was fired with, or Pending
    response,   \* the lines of the text the classifier is applied to on its own
    classified, \* what _process_device_errors returned for that text
    processed   \* what _process_command_result made of that text

vars ==
    <<device, eof, enabled, pc, op, call, written, waited, event, result,
      response, classified, processed>>

\* The variables of the output classifier applied on its own.
cvars == <<response, classified, processed>>

\* The classifier has not been applied; the command result has not been built.
Unclassified == [found |-> FALSE, error_lines |-> <<None>>, data_lines |-> <<None>>]

Unprocessed == [strip_command |-> FALSE, result |-> Pending]

NoCall ==
    [command |-> None, cmd |-> None, prompt |-> None, prompt_arg |-> None,
     strip_command |-> TRUE, strip_prompt |-> TRUE, process_errors |-> TRUE,
     _may_disconnect |-> FALSE]

NoEvent == [kind |-> "none", at |-> "idle", data |-> None]

\* Cisco.__init__, on a transport that is connected.
Init ==
    /\ device \in Devices
    /\ eof = FALSE
    /\ enabled = FALSE
    /\ pc = "idle"
    /\ op = "none"
    /\ call = NoCall
    /\ written = <<>>
    /\ waited = <<>>
    /\ event = NoEvent
    /\ result = Pending
    /\ response = <<>>
    /\ classified = Unclassified
    /\ processed = Unprocessed

\* The pattern read_to_prompt waits for.
read_to_prompt(prompt) ==
    IF prompt = None
    THEN (IF enabled THEN device.enabled_prompt ELSE device.prompt)
    ELSE prompt

\* Mutant: enable goes on with the enable password whatever the outcome of the
\* command cycle.
AfterCommand_whatever_outcome(o, r) ==
    IF o = "enable"
    THEN IF device.enable_password = Absent
         THEN /\ written' = written
              /\ waited' = waited
              /\ pc' = "done"
              /\ result' = _on_enable_failure(KeyError)
         ELSE IF device.enabled_prompt = Absent
         THEN /\ written' = Append(written, device.enable_password \o <<"\n">>)
              /\ waited' = waited
              /\ pc' = "done"
              /\ result' = _on_enable_failure(KeyError)
         ELSE /\ written' = Append(written, device.enable_password \o <<"\n">>)
              /\ waited' = Append(waited, read_to_prompt(device.enabled_prompt))
              /\ pc' = "enable_wait"
              /\ result' = Pending
    ELSE /\ written' = written
         /\ waited' = waited
         /\ pc' = "done"
         /\ result' = IF o = "enable" THEN _on_enable_failure(r) ELSE r

\* The callbacks enable() adds to the Deferred of its run_command, run on the
\* outcome r of a command cycle; the Deferred of any other caller settles with r.
AfterCommand(o, r) ==
    IF o = "enable" /\ r.ok
    THEN IF device.enable_password = Absent
         THEN /\ written' = written
              /\ waited' = waited
              /\ pc' = "done"
              /\ result' = _on_enable_failure(KeyError)
         ELSE IF device.enabled_prompt = Absent
         THEN /\ written' = Append(written, device.enable_password \o <<"\n">>)
              /\ waited' = waited
              /\ pc' = "done"
              /\ result' = _on_enable_failure(KeyError)
         ELSE /\ written' = Append(written, device.enable_password \o <<"\n">>)
              /\ waited' = Append(waited, read_to_prompt(device.enabled_prompt))
              /\ pc' = "enable_wait"
              /\ result' = Pending
    ELSE /\ written' = written
         /\ waited' = waited
         /\ pc' = "done"
         /\ result' = IF o = "enable" THEN _on_enable_failure(r) ELSE r

\* Mutant: without an override the unprivileged prompt is waited for, whatever
\* the privilege level.
SendCommand_ignores_enabled(o, command, prompt, strip_command, strip_prompt, process_errors, _may_disconnect) ==
    LET p   == IF prompt = None THEN device.prompt ELSE prompt
        cmd == strip(command)
    IN  /\ call' = [command |-> command, cmd |-> cmd, prompt |-> p, prompt_arg |-> prompt,
                    strip_command |-> strip_command, strip_prompt |-> strip_prompt,
                    process_errors |-> process_errors, _may_disconnect |-> _may_disconnect]
        /\ written' = Append(written, cmd \o <<"\n">>)
        /\ waited' = Append(waited, p)
        /\ pc' = "cmd_wait"
        /\ result' = Pending

\* write(command + '\n'), then expect([prompt]).
SendCommand(o, command, prompt, strip_command, strip_prompt, process_errors, _may_disconnect) ==
    LET p   == IF prompt = None
               THEN (IF enabled THEN device.enabled_prompt ELSE device.prompt)
               ELSE prompt
        cmd == strip(command)
    IN  /\ call' = [command |-> command, cmd |-> cmd, prompt |-> p, prompt_arg |-> prompt,
                    strip_command |-> strip_command, strip_prompt |-> strip_prompt,
                    process_errors |-> process_errors, _may_disconnect |-> _may_disconnect]
        /\ written' = Append(written, cmd \o <<"\n">>)
        /\ waited' = Append(waited, p)
        /\ pc' = "cmd_wait"
        /\ result' = Pending

\* Mutant: eof is not checked before the write.
run_command_unchecked(o, command, prompt, strip_command, strip_prompt, process_errors, _may_disconnect) ==
    SendCommand(o, command, prompt, strip_command, strip_prompt,
                process_errors, _may_disconnect)

\* run_command, issued by operation o (a caller's run_command or exit, or the
\* command cycle of login or enable).
run_command(o, command, prompt, strip_command, strip_prompt, process_errors, _may_disconnect) ==
    IF eof
    THEN /\ call' = [command |-> command, cmd |-> None, prompt |-> None, prompt_arg |-> prompt,
                     strip_command |-> strip_command, strip_prompt |-> strip_prompt,
                     process_errors |-> process_errors, _may_disconnect |-> _may_disconnect]
         /\ AfterCommand(o, Failure("NotConnected", command, None, None))
    ELSE IF prompt = None /\ read_to_prompt(None) = Absent
    THEN /\ call' = [command |-> command, cmd |-> None, prompt |-> None, prompt_arg |-> prompt,
                     strip_command |-> strip_command, strip_prompt |-> strip_prompt,
                     process_errors |-> process_errors, _may_disconnect |-> _may_disconnect]
         /\ AfterCommand(o, KeyError)
    ELSE SendCommand(o, command, prompt, strip_command, strip_prompt,
                     process_errors, _may_disconnect)

\* A caller issues run_command.
CallRunCommand ==
    /\ pc = "idle"
    /\ \E command \in Commands, prompt \in PromptArgs,
          strip_command \in BOOLEAN, strip_prompt \in BOOLEAN,
          process_errors \in BOOLEAN, _may_disconnect \in BOOLEAN :
            run_command("run_command", command, prompt, strip_command, strip_prompt,
                        process_errors, _may_disconnect)
    /\ op' = "run_command"
    /\ event' = NoEvent
    /\ UNCHANGED <<cvars, device, eof, enabled>>

\* A caller issues run_command with the defaults of its options.
CallRunCommandDefault ==
    /\ pc = "idle"
    /\ \E command \in Commands, prompt \in PromptArgs :
            run_command("run_command", command, prompt, TRUE, TRUE, TRUE, FALSE)
    /\ op' = "run_command"
    /\ event' = NoEvent
    /\ UNCHANGED <<cvars, device, eof, enabled>>

\* Mutant: exit does not set _may_disconnect.
exit_without_flag ==
    /\ pc = "idle"
    /\ \E prompt \in PromptArgs, strip_command \in BOOLEAN, strip_prompt \in BOOLEAN,
          process_errors \in BOOLEAN :
            run_command("exit", CmdExit, prompt, strip_command, strip_prompt,
                        process_errors, FALSE)
    /\ op' = "exit"
    /\ event' = NoEvent
    /\ UNCHANGED <<cvars, device, eof, enabled>>

\* A caller issues exit.
exit ==
    /\ pc = "idle"
    /\ \E prompt \in PromptArgs, strip_command \in BOOLEAN, strip_prompt \in BOOLEAN,
          process_errors \in BOOLEAN :
            run_command("exit", CmdExit, prompt, strip_command, strip_prompt,
                        process_errors, TRUE)
    /\ op' = "exit"
    /\ event' = NoEvent
    /\ UNCHANGED <<cvars, device, eof, enabled>>

\* Mutant: login starts the session over as unprivileged.
login_resets_enabled ==
    /\ pc = "idle"
    /\ op' = "login"
    /\ call' = NoCall
    /\ written' = <<>>
    /\ IF device.password_prompt = Absent
       THEN /\ waited' = <<>>
            /\ pc' = "done"
            /\ result' = KeyError
       ELSE /\ waited' = <<device.password_prompt>>
            /\ pc' = "login_wait_pw"
            /\ result' = Pending
    /\ event' = NoEvent
    /\ enabled' = FALSE
    /\ UNCHANGED <<cvars, device, eof>>

\* A caller issues login: read_until(password_prompt).
login ==
    /\ pc = "idle"
    /\ op' = "login"
    /\ call' = NoCall
    /\ written' = <<>>
    /\ IF device.password_prompt = Absent
       THEN /\ waited' = <<>>
            /\ pc' = "done"
            /\ result' = KeyError
       ELSE /\ waited' = <<device.password_prompt>>
            /\ pc' = "login_wait_pw"
            /\ result' = Pending
    /\ event' = NoEvent
    /\ UNCHANGED <<cvars, device, eof, enabled>>

\* Mutant: the command and the prompt of enable are used without being looked up.
enable_unchecked ==
    /\ pc = "idle"
    /\ run_command("enable", device.enable_command, device.enable_password_prompt,
                   TRUE, TRUE, TRUE, FALSE)
    /\ op' = "enable"
    /\ event' = NoEvent
    /\ UNCHANGED <<cvars, device, eof, enabled>>

\* Mutant: the session is marked privileged as soon as enable is called.
enable_optimistic ==
    /\ pc = "idle"
    /\ IF device.enable_command = Absent \/ device.enable_password_prompt = Absent
       THEN /\ pc' = "done"
            /\ result' = KeyError
            /\ UNCHANGED <<call, written, waited>>
       ELSE run_command("enable", device.enable_command, device.enable_password_prompt,
                        TRUE, TRUE, TRUE, FALSE)
    /\ op' = "enable"
    /\ event' = NoEvent
    /\ enabled' = TRUE
    /\ UNCHANGED <<cvars, device, eof>>

\* A caller issues enable: run_command(enable_command, prompt=enable_password_prompt).
enable ==
    /\ pc = "idle"
    /\ IF device.enable_command = Absent \/ device.enable_password_prompt = Absent
       THEN /\ pc' = "done"
            /\ result' = KeyError
            /\ UNCHANGED <<call, written, waited>>
       ELSE run_command("enable", device.enable_command, device.enable_password_prompt,
                        TRUE, TRUE, TRUE, FALSE)
    /\ op' = "enable"
    /\ event' = NoEvent
    /\ UNCHANGED <<cvars, device, eof, enabled>>

\* The first callbacks of login, run when the password prompt has matched:
\* write(password + '\n'), then read_to_prompt(); a KeyError raised by either
\* goes through _on_login_failure.
PasswordPromptSeen ==
    IF device.password = Absent
    THEN /\ pc' = "done"
         /\ result' = _on_login_failure(KeyError)
         /\ UNCHANGED <<written, waited>>
    ELSE IF read_to_prompt(None) = Absent
    THEN /\ written' = Append(written, device.password \o <<"\n">>)
         /\ pc' = "done"
         /\ result' = _on_login_failure(KeyError)
         /\ UNCHANGED waited
    ELSE /\ written' = Append(written, device.password \o <<"\n">>)
         /\ waited' = Append(waited, read_to_prompt(None))
         /\ pc' = "login_wait_prompt"
         /\ result' = Pending

\* Mutant: paging is never disabled.
_on_login_success_no_paging(res) ==
    /\ pc' = "done"
    /\ result' = Success(res)
    /\ UNCHANGED <<call, written, waited>>

_on_login_success(res) ==
    IF device.disable_paging
    THEN run_command(op, device.disable_paging_command, None, TRUE, TRUE, TRUE, FALSE)
    ELSE /\ pc' = "done"
         /\ result' = Success(res)
         /\ UNCHANGED <<call, written, waited>>

_on_enable(res) ==
    /\ enabled' = TRUE
    /\ pc' = "done"
    /\ result' = Success(res)
    /\ UNCHANGED <<call, written, waited>>

\* The callbacks run when the wait in flight ends with a match: res is
\* <<pattern index, start of the match, data>>.
OnMatch(res) ==
    CASE pc = "cmd_wait" ->
            /\ AfterCommand(op, _process_command_result(res, call.cmd, call.strip_command,
                                                        call.strip_prompt, call.process_errors))
            /\ UNCHANGED <<call, enabled>>
      [] pc = "login_wait_pw" ->
            /\ PasswordPromptSeen
            /\ UNCHANGED <<call, enabled>>
      [] pc = "login_wait_prompt" ->
            /\ _on_login_success(res[3])
            /\ UNCHANGED enabled
      [] pc = "enable_wait" ->
            _on_enable(res[3])

\* Mutant: a command whose wait timed out is sent once more.
OnFailure_retries_once(failure) ==
    /\ CASE pc = "cmd_wait" ->
              IF check(failure, "RequestTimeout") /\ Len(written) < 2
              THEN /\ written' = Append(written, call.cmd \o <<"\n">>)
                   /\ waited' = Append(waited, call.prompt)
                   /\ pc' = "cmd_wait"
                   /\ result' = Pending
              ELSE AfterCommand(op, _on_command_error(failure, call.cmd, call.strip_command,
                                                      call.strip_prompt, call.process_errors,
                                                      call._may_disconnect))
         [] pc = "login_wait_pw" ->
              /\ pc' = "done"
              /\ result' = _on_login_failure(_no_password_prompt(failure))
              /\ UNCHANGED <<written, waited>>
         [] pc = "login_wait_prompt" ->
              /\ pc' = "done"
              /\ result' = _on_login_failure(failure)
              /\ UNCHANGED <<written, waited>>
         [] pc = "enable_wait" ->
              /\ pc' = "done"
              /\ result' = _on_enable_failure(failure)
              /\ UNCHANGED <<written, waited>>
    /\ UNCHANGED <<call, enabled>>

\* The errbacks run when the wait in flight ends with a failure of the engine.
OnFailure(failure) ==
    /\ CASE pc = "cmd_wait" ->
              AfterCommand(op, _on_command_error(failure, call.cmd, call.strip_command,
                                                 call.strip_prompt, call.process_errors,
                                                 call._may_disconnect))
         [] pc = "login_wait_pw" ->
              /\ pc' = "done"
              /\ result' = _on_login_failure(_no_password_prompt(failure))
              /\ UNCHANGED <<written, waited>>
         [] pc = "login_wait_prompt" ->
              /\ pc' = "done"
              /\ result' = _on_login_failure(failure)
              /\ UNCHANGED <<written, waited>>
         [] pc = "enable_wait" ->
              /\ pc' = "done"
              /\ result' = _on_enable_failure(failure)
              /\ UNCHANGED <<written, waited>>
    /\ UNCHANGED <<call, enabled>>

\* The engine: the awaited pattern matches at the end of the text read.
Matched ==
    /\ pc \notin {"idle", "done"}
    /\ \E text \in Texts :
         LET pattern == waited[Len(waited)]
             data    == text \o pattern
         IN  /\ event' = [kind |-> "matched", at |-> pc, data |-> data]
             /\ OnMatch(<<0, Len(text), data>>)
    /\ UNCHANGED <<cvars, device, eof, op>>

\* The engine: the timeout elapses before the pattern matches; the stream is open.
TimedOut ==
    /\ pc \notin {"idle", "done"}
    /\ \E data \in Texts :
         /\ event' = [kind |-> "timeout", at |-> pc, data |-> data]
         /\ OnFailure(RequestTimeout(data))
    /\ UNCHANGED <<cvars, device, eof, op>>

\* The engine: the stream ends before the pattern matches; TExpect marks the
\* session closed and fails the wait in flight.
ConnectionLost ==
    /\ pc \notin {"idle", "done"}
    /\ eof' = TRUE
    /\ \E data \in Texts :
         /\ event' = [kind |-> "connlost", at |-> pc, data |-> data]
         /\ OnFailure(RequestInterruptedByConnectionLoss(data))
    /\ UNCHANGED <<cvars, device, op>>

\* The engine: the wait fails with something that is not a RequestFailed.
WaitFailed ==
    /\ pc \notin {"idle", "done"}
    /\ event' = [kind |-> "error", at |-> pc, data |-> None]
    /\ OnFailure(OtherFailure)
    /\ UNCHANGED <<cvars, device, eof, op>>

\* The caller's callback or errback has taken the outcome of the operation; the
\* session is ready for the next one.
Return ==
    /\ pc = "done"
    /\ pc' = "idle"
    /\ op' = "none"
    /\ call' = NoCall
    /\ written' = <<>>
    /\ waited' = <<>>
    /\ event' = NoEvent
    /\ result' = Pending
    /\ UNCHANGED <<cvars, device, eof, enabled>>

\* The engine: the stream ends while no operation is in flight.
ConnectionLostIdle ==
    /\ pc = "idle"
    /\ ~eof
    /\ eof' = TRUE
    /\ UNCHANGED <<cvars, device, enabled, pc, op, call, written, waited, event, result>>

Next ==
    \/ CallRunCommand
    \/ exit
    \/ login
    \/ enable
    \/ Matched
    \/ TimedOut
    \/ ConnectionLost
    \/ WaitFailed
    \/ ConnectionLostIdle
    \/ Return

(***************************************************************************)
(* A session whose Device mapping lacks a key                              *)
(***************************************************************************)

InitMissingKey ==
    /\ device \in DevicesMissingKey
    /\ eof = FALSE
    /\ enabled = FALSE
    /\ pc = "idle"
    /\ op = "none"
    /\ call = NoCall
    /\ written = <<>>
    /\ waited = <<>>
    /\ event = NoEvent
    /\ result = Pending
    /\ response = <<>>
    /\ classified = Unclassified
    /\ processed = Unprocessed

NextMissingKey ==
    \/ CallRunCommandDefault
    \/ login
    \/ enable
    \/ Matched
    \/ TimedOut
    \/ ConnectionLost
    \/ ConnectionLostIdle
    \/ Return

SpecMissingKey == InitMissingKey /\ [][NextMissingKey]_vars

(***************************************************************************)
(* The output classifier applied on its own                                *)
(***************************************************************************)

\* The command whose echo _process_command_result looks for.
ProcessedCmd == LineEcho

\* A session at rest and a response of the device.
InitClassifier ==
    /\ device = Device(FALSE)
    /\ eof = FALSE
    /\ enabled = FALSE
    /\ pc = "idle"
    /\ op = "none"
    /\ call = NoCall
    /\ written = <<>>
    /\ waited = <<>>
    /\ event = NoEvent
    /\ result = Pending
    /\ response \in Responses
    /\ classified = Unclassified
    /\ processed = Unprocessed

\* _process_device_errors is applied to the response.
Classify ==
    /\ classified = Unclassified
    /\ classified' = _process_device_errors(join(response))
    /\ UNCHANGED <<device, eof, enabled, pc, op, call, written, waited, event, result,
                   response, processed>>

\* _process_command_result is applied to the response, as the data of a wait
\* that ended without a match object, with error detection on.
ProcessResult ==
    /\ processed = Unprocessed
    /\ \E strip_command \in BOOLEAN :
          processed' = [strip_command |-> strip_command,
                        result |-> _process_command_result(
                                       <<None, None, join(response)>>, ProcessedCmd,
                                       strip_command, FALSE, TRUE)]
    /\ UNCHANGED <<device, eof, enabled, pc, op, call, written, waited, event, result,
                   response, classified>>

NextClassifier ==
    \/ Classify
    \/ ProcessResult

SpecClassifier == InitClassifier /\ [][NextClassifier]_vars

Spec == Init /\ [][Next]_vars

TypeOK ==
    /\ eof \in BOOLEAN
    /\ enabled \in BOOLEAN
    /\ pc \in {"idle", "cmd_wait", "login_wait_pw", "login_wait_prompt", "enable_wait", "done"}

(***************************************************************************)
(* Properties                                                              *)
(***************************************************************************)

\* The text a command cycle is expected to return, stated from the three steps
\* of the classifier: the text cut at the start of the prompt when asked, trimmed,
\* and without the leading command and the whitespace after it when asked.
Cleaned(text, cmd, strip_command) ==
    LET trimmed == strip(text)
    IN  IF strip_command /\ startswith(trimmed, cmd)
        THEN lstrip(SubSeq(trimmed, Len(cmd) + 1, Len(trimmed)))
        ELSE trimmed

BeforePrompt(data, prompt) == SubSeq(data, 1, Len(data) - Len(prompt))

HasErrorLine(text) ==
    \E i \in 1..Len(split(text)) : startswith(split(text)[i], <<"%">>)

\* The cleaned text of the command cycle that has just ended: on a match the
\* prompt is cut when strip_prompt is set, on a connection loss nothing is cut.
CycleText ==
    IF event.kind = "matched" /\ call.strip_prompt
    THEN Cleaned(BeforePrompt(event.data, call.prompt), call.cmd, call.strip_command)
    ELSE Cleaned(event.data, call.cmd, call.strip_command)

\* A command cycle issued by run_command or exit has ended in the way named.
CycleEnded(kind) ==
    /\ pc = "done"
    /\ op \in {"run_command", "exit"}
    /\ event.at = "cmd_wait"
    /\ event.kind = kind

\* C1: run_command on a closed session (eof true), with any options, fails with
\* NotConnected and issues no write and no pattern wait.
C1_ClosedSessionNoIO ==
    [][(pc = "idle" /\ eof /\ op' = "run_command")
         => /\ pc' = "done"
            /\ result'.type = "NotConnected"
            /\ ~result'.ok
            /\ written' = <<>>
            /\ waited' = <<>>]_vars

C1_Witness ==
    /\ pc = "done" /\ op = "run_command" /\ eof
    /\ result.type = "NotConnected"
    /\ written = <<>> /\ waited = <<>>

\* C2: when the stream ends during the wait of a command cycle that does not
\* expect connection loss, the cycle fails with Disconnected and the session is
\* closed; eof, once true, stays true; and a run_command issued on a closed
\* session fails with NotConnected.
C2_DisconnectedThenClosed ==
    [][/\ (pc = "cmd_wait" /\ ~call._may_disconnect /\ event'.kind = "connlost")
            => (pc' = "done" /\ result'.type = "Disconnected" /\ ~result'.ok /\ eof')
       /\ (eof => eof')
       /\ (pc = "idle" /\ eof /\ op' = "run_command")
            => result'.type = "NotConnected"]_vars

C2_Witness ==
    /\ CycleEnded("connlost") /\ op = "run_command"
    /\ ~call._may_disconnect
    /\ result.type = "Disconnected" /\ eof

\* C3: when the stream ends during the wait of a command cycle that expects
\* connection loss, the outcome is that of the success path on the accumulated
\* text with nothing cut for the prompt, whatever strip_prompt the caller
\* passed, and the session is closed.
C3_ExpectedLossIsSuccessPath ==
    (CycleEnded("connlost") /\ call._may_disconnect)
        => /\ eof
           /\ LET text == Cleaned(event.data, call.cmd, call.strip_command)
              IN  result = IF call.process_errors /\ HasErrorLine(text)
                           THEN Failure("CiscoCommandError", call.cmd, text,
                                        join(_process_device_errors(text).error_lines))
                           ELSE Success(text)

C3_Witness ==
    /\ CycleEnded("connlost") /\ op = "run_command"
    /\ call._may_disconnect /\ call.strip_prompt
    /\ result.ok /\ result.data # <<>> /\ eof

\* C4 as stated: exit(), called with its default arguments, succeeds with the
\* response text whenever the transport closes after responding (session closed)
\* or answers with the prompt and stays open (session open).
C4_ExitAlwaysSucceeds ==
    (/\ pc = "done" /\ op = "exit" /\ event.kind \in {"connlost", "matched"}
     /\ call.strip_command /\ call.strip_prompt /\ call.process_errors)
        => /\ result.ok
           /\ result.data = CycleText
           /\ (event.kind = "connlost" => eof)
           /\ (event.kind = "matched" => ~eof)

\* C4: exit() writes "exit" with the connection-loss-expected flag set; when the
\* transport closes after responding, or answers with the prompt and stays open,
\* exit() settles as the success path does on the response text: it succeeds with
\* the cleaned text, unless error detection is on and the text holds a line
\* starting with '%', and then it fails with CiscoCommandError; the session is
\* closed in the first case and stays open in the second.
C4_ExitSuccessPath ==
    (pc = "done" /\ op = "exit" /\ event.kind \in {"connlost", "matched"})
        => /\ call._may_disconnect
           /\ written = <<CmdExit \o <<"\n">> >>
           /\ result.type \in {"result", "CiscoCommandError"}
           /\ result.ok = ~(call.process_errors /\ HasErrorLine(CycleText))
           /\ result.data = CycleText
           /\ (event.kind = "connlost" => eof)
           /\ (event.kind = "matched" => ~eof)

C4_Witness ==
    /\ pc = "done" /\ op = "exit" /\ event.kind = "connlost"
    /\ result.ok /\ eof

\* C5: when the wait of a command cycle times out with the stream still open,
\* the cycle fails with UnexpectedResult, whatever the connection-loss-expected
\* flag, and the session stays open.
C5_TimeoutIsUnexpectedResult ==
    [][(pc = "cmd_wait" /\ event'.kind = "timeout")
         => /\ pc' = "done"
            /\ result'.type = "UnexpectedResultError"
            /\ ~result'.ok
            /\ eof' = eof /\ ~eof']_vars

C5_Witness ==
    /\ CycleEnded("timeout") /\ call._may_disconnect
    /\ result.type = "UnexpectedResultError" /\ ~eof

\* C6: every error run_command produces after I/O (UnexpectedResult,
\* Disconnected, CiscoCommandError) carries the command that was run in its
\* command field and the text accumulated up to the failure in its data field.
C6_ErrorsCarryCommandAndData ==
    (pc = "done" /\ op \in {"run_command", "exit"}
       /\ result.type \in {"UnexpectedResultError", "Disconnected", "CiscoCommandError"})
        => /\ result.command = call.cmd
           /\ result.data = event.data

\* C7: when the prompt matches and the cleaned text has no line starting with
\* '%', run_command succeeds with the text cut at the start of the match (when
\* strip_prompt is set), then trimmed, then without the leading command and the
\* whitespace after it (when strip_command is set); with the default toggles,
\* prompt "device>" and response "show run\nSome command output\ndevice>" to
\* "show run", the result is "Some command output".
C7_SuccessOutput ==
    /\ (CycleEnded("matched") /\ ~HasErrorLine(CycleText))
          => result = Success(CycleText)
    /\ (/\ CycleEnded("matched")
        /\ call.command = CmdShowRun
        /\ call.strip_command /\ call.strip_prompt /\ call.process_errors
        /\ event.data = TextShowRun \o <<"d", "e", "v", "i", "c", "e", ">">>)
          => result = Success(<<"S", "o", "m", "e", " ", "c", "o", "m", "m", "a", "n", "d",
                                " ", "o", "u", "t", "p", "u", "t">>)

C7_Witness ==
    /\ CycleEnded("matched") /\ op = "run_command"
    /\ call.command = CmdShowRun
    /\ call.strip_command /\ call.strip_prompt /\ call.process_errors
    /\ event.data = TextShowRun \o <<"d", "e", "v", "i", "c", "e", ">">>
    /\ result.ok

\* C8 as stated: the CiscoCommandError carries the command, the banner text, and
\* in its data field the surviving output, with none of the banner lines.
C8_DataIsSurvivingOutput ==
    (pc = "done" /\ op \in {"run_command", "exit"} /\ result.type = "CiscoCommandError")
        => /\ result.command = call.cmd
           /\ result.error = join(_process_device_errors(CycleText).error_lines)
           /\ result.data = join(_process_device_errors(CycleText).data_lines)

\* C8: when error detection is on and the cleaned text of a command cycle holds
\* an error banner, the cycle fails with CiscoCommandError whose command field is
\* the command, whose error field is the banner text, and whose data field is
\* the whole cleaned text, banner lines included.
C8_DataIsCleanedText ==
    (/\ pc = "done" /\ op \in {"run_command", "exit"}
     /\ event.at = "cmd_wait"
     /\ \/ event.kind = "matched"
        \/ event.kind = "connlost" /\ call._may_disconnect
     /\ call.process_errors /\ HasErrorLine(CycleText))
        => /\ result.type = "CiscoCommandError"
           /\ result.command = call.cmd
           /\ result.error = join(_process_device_errors(CycleText).error_lines)
           /\ result.data = CycleText
           /\ \E i \in 1..Len(split(result.data)) :
                 startswith(split(result.data)[i], <<"%">>)

C8_Witness ==
    /\ CycleEnded("matched") /\ op = "run_command"
    /\ result.type = "CiscoCommandError"
    /\ event.data = TextMarkerBanner \o call.prompt
    /\ result.error = join(<<LineCaret, LineErrMarker, LineEmpty>>)

\* C9: when login's wait for the password prompt times out, login fails with
\* UnexpectedResult, not LoginFailed; the password is not written and no further
\* wait is issued.
C9_NoPasswordPrompt ==
    [][(pc = "login_wait_pw" /\ event'.kind = "timeout")
         => /\ pc' = "done"
            /\ result'.type = "UnexpectedResultError"
            /\ ~result'.ok
            /\ written' = <<>>
            /\ waited' = <<device.password_prompt>>]_vars

C9_Witness ==
    /\ pc = "done" /\ op = "login"
    /\ event.at = "login_wait_pw" /\ event.kind = "timeout"
    /\ result.type = "UnexpectedResultError"
    /\ written = <<>>

\* C10: when login has seen the password prompt and written the password, and
\* the wait for the prompt that follows times out, login fails with LoginFailed,
\* not with UnexpectedResult.
C10_LoginFailed ==
    [][(pc = "login_wait_prompt" /\ event'.kind = "timeout")
         => /\ pc' = "done"
            /\ result'.type = "LoginFailed"
            /\ ~result'.ok
            /\ written = <<device.password \o <<"\n">> >>
            /\ written' = written]_vars

C10_Witness ==
    /\ pc = "done" /\ op = "login"
    /\ event.at = "login_wait_prompt" /\ event.kind = "timeout"
    /\ result.type = "LoginFailed"
    /\ written = <<device.password \o <<"\n">> >>

\* C11: login fails with LoginFailed only after the password prompt has matched
\* and the password has been written: whatever ends the first wait other than
\* a match, the end of the stream included, the result is not LoginFailed.
C11_LoginFailedOnlyAfterPassword ==
    [][(pc = "login_wait_pw" /\ event'.kind # "matched")
         => result'.type # "LoginFailed"]_vars

\* The password of login and the paging command, as they are written.
PasswordLine == device.password \o <<"\n">>

PagingLine == strip(device.disable_paging_command) \o <<"\n">>

\* The prompt of the privilege level the session is at.
LevelPrompt == IF enabled THEN device.enabled_prompt ELSE device.prompt

\* C12: on the success path of login, with paging suppression requested, one
\* command cycle with the paging command runs before login settles, and a
\* failure of that cycle is the result of login as it is (UnexpectedResult,
\* Disconnected, CiscoCommandError or NotConnected, never LoginFailed); without
\* the request nothing is written after the password.
C12_PagingCycle ==
    op = "login" =>
        /\ (pc = "cmd_wait" \/ (pc = "done" /\ event.at = "cmd_wait"))
              => /\ device.disable_paging
                 /\ written = <<PasswordLine, PagingLine>>
                 /\ waited = <<device.password_prompt, LevelPrompt, LevelPrompt>>
        /\ (pc = "done" /\ event.at = "cmd_wait")
              => /\ result.type \in {"result", "UnexpectedResultError", "Disconnected",
                                     "CiscoCommandError", "Exception"}
                 /\ event.kind = "error" => result.type = "Exception"
                 /\ event.kind = "timeout" => result.type = "UnexpectedResultError"
                 /\ event.kind = "connlost" => result.type = "Disconnected"
                 /\ event.kind = "matched" =>
                       result.type = (IF HasErrorLine(CycleText)
                                      THEN "CiscoCommandError" ELSE "result")
        /\ (pc = "done" /\ event.at = "login_wait_prompt" /\ event.kind = "matched")
              => /\ written = <<PasswordLine>>
                 /\ IF device.disable_paging
                    THEN eof /\ result.type = "NotConnected"
                    ELSE result.ok
        /\ ~device.disable_paging => Len(written) <= 1

C12_Witness ==
    /\ pc = "done" /\ op = "login"
    /\ event.at = "cmd_wait" /\ event.kind = "matched"
    /\ result.type = "CiscoCommandError"
    /\ written = <<PasswordLine, PagingLine>>

\* C13 as stated: a timeout of the wait for the enable-password prompt and a
\* timeout of the later wait for the privileged prompt both make enable fail
\* with EnableFailed.
C13_BothTimeoutsEnableFailed ==
    [][(op = "enable" /\ pc \in {"cmd_wait", "enable_wait"} /\ event'.kind = "timeout")
         => (pc' = "done" /\ result'.type = "EnableFailed")]_vars

\* C13, amended: a timeout of the wait for the enable-password prompt makes
\* enable fail with the UnexpectedResult of the command cycle, and only a
\* timeout of the later wait for the privileged prompt gives EnableFailed.
C13_EnableTimeouts ==
    [][/\ (op = "enable" /\ pc = "cmd_wait" /\ event'.kind = "timeout")
            => /\ pc' = "done"
               /\ result'.type = "UnexpectedResultError"
               /\ written' = <<call.cmd \o <<"\n">> >>
               /\ enabled' = enabled
       /\ (op = "enable" /\ pc = "enable_wait" /\ event'.kind = "timeout")
            => /\ pc' = "done"
               /\ result'.type = "EnableFailed"
               /\ written' = <<call.cmd \o <<"\n">>, device.enable_password \o <<"\n">> >>
               /\ enabled' = enabled]_vars

C13_Witness ==
    /\ pc = "done" /\ op = "enable"
    /\ event.at = "cmd_wait" /\ event.kind = "timeout"
    /\ result.type = "UnexpectedResultError"
    /\ written = <<device.enable_command \o <<"\n">> >>

\* C14: when the command cycle of enable ends with an error banner, enable
\* fails with that CiscoCommandError as it is; the enable password is not
\* written and the privileged flag keeps its value.
C14_EnableCommandError ==
    [][(op = "enable" /\ pc = "cmd_wait" /\ event'.kind = "matched"
           /\ HasErrorLine(Cleaned(BeforePrompt(event'.data, call.prompt), call.cmd, TRUE)))
         => /\ pc' = "done"
            /\ result' = _process_command_result(
                             <<0, Len(event'.data) - Len(call.prompt), event'.data>>,
                             call.cmd, TRUE, TRUE, TRUE)
            /\ result'.type = "CiscoCommandError"
            /\ result'.command = device.enable_command
            /\ written' = <<device.enable_command \o <<"\n">> >>
            /\ waited' = <<device.enable_password_prompt>>
            /\ enabled' = enabled]_vars

C14_Witness ==
    /\ pc = "done" /\ op = "enable"
    /\ event.at = "cmd_wait" /\ event.kind = "matched"
    /\ result.type = "CiscoCommandError"
    /\ result.command = device.enable_command
    /\ ~enabled
    /\ written = <<device.enable_command \o <<"\n">> >>

\* C15: the privileged flag starts false and changes only from false to true,
\* at the end of an enable whose command cycle succeeded, whose enable password
\* was written and whose wait for the privileged prompt matched; every other
\* step leaves the flag as it is.
C15_EnabledOnlyByEnable ==
    /\ ~enabled
    /\ [][enabled' # enabled
            => /\ ~enabled /\ enabled'
               /\ op = "enable" /\ pc = "enable_wait"
               /\ event'.kind = "matched"
               /\ written = <<device.enable_command \o <<"\n">>,
                              device.enable_password \o <<"\n">> >>
               /\ waited = <<device.enable_password_prompt, device.enabled_prompt>>
               /\ pc' = "done" /\ result'.ok]_vars

C15_Witness ==
    /\ enabled
    /\ pc = "done" /\ op = "enable"
    /\ event.at = "enable_wait" /\ event.kind = "matched"
    /\ result.ok
    /\ written = <<device.enable_command \o <<"\n">>, device.enable_password \o <<"\n">> >>

\* C16: once the privileged flag is true, no step of any operation, whatever
\* its outcome, makes it false again.
C16_EnabledStaysTrue ==
    [][enabled => enabled']_vars

C16_Witness ==
    /\ enabled
    /\ pc = "done" /\ op = "login"
    /\ event.kind = "connlost"
    /\ ~result.ok

\* The lines of a text, and whether a line holds a given text.
IsErrorLine(line) == Len(line) >= 1 /\ line[1] = "%"

Holds(line, sub) ==
    \E k \in 1..(Len(line) - Len(sub) + 1) : SubSeq(line, k, k + Len(sub) - 1) = sub

RefersToMarker(line) == Holds(line, <<"'", "^", "'", " ", "m", "a", "r", "k", "e", "r">>)

\* The first error line of the response is line i (counted from 1).
FirstErrorAt(i) ==
    /\ i \in 1..Len(response)
    /\ IsErrorLine(response[i])
    /\ \A j \in 1..(i - 1) : ~IsErrorLine(response[j])

\* The response as _process_command_result cleans it.
CleanedResponse == Cleaned(join(response), ProcessedCmd, processed.strip_command)

\* C17: for a text none of whose lines begins with '%', the empty text
\* included, the classifier reports no error, and the command result is the
\* cleaned text as it is.
C17_NoErrorLine ==
    /\ (classified # Unclassified /\ \A i \in 1..Len(response) : ~IsErrorLine(response[i]))
          => classified = NoError
    /\ (processed # Unprocessed /\ ~HasErrorLine(CleanedResponse))
          => processed.result = Success(CleanedResponse)

C17_Witness ==
    /\ response = <<LineEcho, LineUsage, LineCaret>>
    /\ classified = NoError
    /\ processed.strip_command
    /\ processed.result = Success(join(<<LineUsage, LineCaret>>))

\* C18: when the first line that begins with '%' refers to the "'^' marker",
\* at whatever index i, the first and the last line included, the error text
\* is the lines i-1, i, i+1 that exist, in order, and the surviving output is
\* every other line, once, in order.
C18_MarkerBanner ==
    \A i \in 1..Len(response) :
        (classified # Unclassified /\ FirstErrorAt(i) /\ RefersToMarker(response[i]))
            => /\ classified.found
               /\ classified.error_lines =
                      SubSeq(response, IF i = 1 THEN 1 ELSE i - 1,
                                       IF i = Len(response) THEN i ELSE i + 1)
               /\ classified.data_lines =
                      SubSeq(response, 1, i - 2) \o SubSeq(response, i + 2, Len(response))

\* C19: when the first line that begins with '%' does not refer to the marker,
\* at whatever index (first, middle, last, only line), the error text is that
\* one line and the surviving output is all the other lines in order.
C19_PlainBanner ==
    \A i \in 1..Len(response) :
        (classified # Unclassified /\ FirstErrorAt(i) /\ ~RefersToMarker(response[i]))
            => /\ classified.found
               /\ classified.error_lines = <<response[i]>>
               /\ classified.data_lines =
                      SubSeq(response, 1, i - 1) \o SubSeq(response, i + 1, Len(response))

C19_Witness ==
    /\ response = <<LineEcho, LineErrPlain, LineErrMarker>>
    /\ classified.found
    /\ classified.error_lines = <<LineErrPlain>>
    /\ classified.data_lines = <<LineEcho, LineErrMarker>>

\* A key the operation in flight (or just settled) requires is absent.
EnableLine == device.enable_command \o <<"\n">>

AbsentAtCall ==
    \/ op = "login" /\ device.password_prompt = Absent
    \/ op = "enable" /\ (device.enable_command = Absent
                           \/ device.enable_password_prompt = Absent)
    \/ op = "run_command" /\ call.prompt = None /\ LevelPrompt = Absent

AbsentLater ==
    \/ op = "login" /\ device.password = Absent
    \/ op = "enable" /\ (device.enable_password = Absent \/ device.enabled_prompt = Absent)

\* C20 as stated: when a key login, enable or run_command requires is absent
\* from the Device mapping, the operation fails before any write or pattern
\* wait is issued.
C20_AbsentKeyNoIO ==
    (AbsentAtCall \/ AbsentLater)
        => /\ pc = "done" /\ ~result.ok
           /\ written = <<>>
           /\ waited = <<>>

\* C20, amended: the operation fails before any write or wait when the absent
\* key is one it reads at the call (login: password prompt; enable: command and
\* enable-password prompt; run_command: the prompt of the current level). The
\* password of login, the enable password and the privileged prompt are read
\* only after the wait before them has matched: login has then waited for the
\* password prompt, enable has run its command cycle (and, for the privileged
\* prompt, written the enable password), and the operation fails with KeyError.
C20_AbsentKey ==
    /\ AbsentAtCall
          => /\ pc = "done" /\ ~result.ok
             /\ result.type = (IF op = "run_command" /\ eof THEN "NotConnected" ELSE "KeyError")
             /\ written = <<>>
             /\ waited = <<>>
    /\ (op = "login" /\ device.password = Absent)
          => /\ written = <<>>
             /\ waited = <<device.password_prompt>>
             /\ pc \in {"login_wait_pw", "done"}
             /\ (pc = "done" /\ event.kind = "matched") => result.type = "KeyError"
    /\ (op = "enable" /\ device.enable_password = Absent)
          => /\ pc \in {"cmd_wait", "done"}
             /\ (pc = "done" /\ event.kind = "matched" /\ ~HasErrorLine(CycleText))
                    => /\ result.type = "KeyError"
                       /\ written = <<EnableLine>>
                       /\ waited = <<device.enable_password_prompt>>
    /\ (op = "enable" /\ device.enabled_prompt = Absent)
          => /\ pc \in {"cmd_wait", "done"}
             /\ (pc = "done" /\ event.kind = "matched" /\ ~HasErrorLine(CycleText))
                    => /\ result.type = "KeyError"
                       /\ written = <<EnableLine, device.enable_password \o <<"\n">> >>
                       /\ waited = <<device.enable_password_prompt>>

C20_Witness ==
    /\ pc = "done" /\ op = "enable"
    /\ device.enabled_prompt = Absent
    /\ result.type = "KeyError"
    /\ written = <<EnableLine, device.enable_password \o <<"\n">> >>

BeginsWith(text, cmd) == Len(text) >= Len(cmd) /\ SubSeq(text, 1, Len(cmd)) = cmd

\* The trimmed response, before the echoed command is looked for.
TrimmedResponse == strip(join(response))

\* C22: with strip_command set, the command is removed only when the trimmed
\* text begins with it, character for character, and then one leading
\* occurrence and the whitespace right after it are removed: what follows,
\* a further occurrence of the command included, is kept; when the text does
\* not begin with the command, or strip_command is off, nothing is removed.
C22_StripCommandOnce ==
    processed # Unprocessed =>
        LET d == processed.result.data
            t == TrimmedResponse
        IN  IF processed.strip_command /\ BeginsWith(t, ProcessedCmd)
            THEN /\ \E k \in 0..(Len(t) - Len(ProcessedCmd)) :
                       /\ \A j \in 1..k : t[Len(ProcessedCmd) + j] \in Whitespace
                       /\ d = SubSeq(t, Len(ProcessedCmd) + k + 1, Len(t))
                 /\ d # <<>> => d[1] \notin Whitespace
            ELSE d = t

C22_Witness ==
    /\ response = <<LineEchoTwice, LineEcho>>
    /\ processed.strip_command
    /\ processed.result.data = join(<<LineEcho, LineEcho>>)

\* C23: a command cycle issued without a prompt override waits for the
\* privileged prompt exactly when the session is privileged as it is issued, and
\* for the unprivileged prompt otherwise; an override is waited for as given,
\* whatever the level; the wait of login after the password follows the level
\* in the same way.
C23_PromptByLevel ==
    [][/\ (pc # "cmd_wait" /\ pc' = "cmd_wait")
            => /\ waited' = Append(waited, call'.prompt)
               /\ call'.prompt =
                     (IF call'.prompt_arg # None THEN call'.prompt_arg
                      ELSE IF enabled THEN device.enabled_prompt ELSE device.prompt)
       /\ (pc = "login_wait_pw" /\ pc' = "login_wait_prompt")
            => waited' = Append(waited, IF enabled THEN device.enabled_prompt
                                        ELSE device.prompt)]_vars

C23_Witness ==
    /\ enabled
    /\ pc = "cmd_wait" /\ op = "run_command"
    /\ call.prompt_arg = None
    /\ waited = <<device.enabled_prompt>>

\* C24: run_command (and exit) fails with CiscoCommandError only with error
\* detection on, and only after the prompt matched or after a connection loss
\* accepted under _may_disconnect: a timeout gives UnexpectedResult and a
\* connection loss without the flag gives Disconnected, even when the text
\* read holds a line that begins with '%'.
C24_CommandErrorOnlyAfterMatch ==
    (pc = "done" /\ op \in {"run_command", "exit"})
        => /\ result.type = "CiscoCommandError"
                => /\ call.process_errors
                   /\ event.at = "cmd_wait"
                   /\ \/ event.kind = "matched"
                      \/ event.kind = "connlost" /\ call._may_disconnect
           /\ event.kind = "timeout" => result.type = "UnexpectedResultError"
           /\ (event.kind = "connlost" /\ ~call._may_disconnect)
                => result.type = "Disconnected"
           /\ ~call.process_errors => result.type # "CiscoCommandError"

C24_Witness ==
    /\ pc = "done" /\ op = "run_command"
    /\ event.kind = "connlost" /\ ~call._may_disconnect
    /\ call.process_errors
    /\ event.data = LineErrPlain
    /\ result.type = "Disconnected"

\* C25: enable writes the enable password only at the match of the
\* enable-password prompt, when the text before it reports no error, and issues
\* the wait for the privileged prompt right after that write; when the command
\* cycle fails (NotConnected, UnexpectedResult, Disconnected, CiscoCommandError)
\* enable settles without writing the enable password.
C25_EnableOrder ==
    [][op' = "enable"
         => /\ (pc = "idle" /\ pc' = "done")
                 => /\ eof /\ result'.type = "NotConnected"
                    /\ written' = <<>> /\ waited' = <<>>
            /\ (pc = "idle" /\ pc' = "cmd_wait")
                 => written' = <<EnableLine>> /\ waited' = <<device.enable_password_prompt>>
            /\ (pc = "cmd_wait" /\ pc' = "done")
                 => /\ result'.type \in {"UnexpectedResultError", "Disconnected",
                                         "CiscoCommandError", "Exception"}
                    /\ written' = <<EnableLine>>
                    /\ waited' = <<device.enable_password_prompt>>
            /\ (pc = "cmd_wait" /\ pc' = "enable_wait")
                 => /\ event'.kind = "matched"
                    /\ ~HasErrorLine(Cleaned(BeforePrompt(event'.data, call.prompt),
                                             call.cmd, TRUE))
                    /\ written' = <<EnableLine, device.enable_password \o <<"\n">> >>
                    /\ waited' = <<device.enable_password_prompt, device.enabled_prompt>>
            /\ pc = "enable_wait"
                 => written' = written /\ waited' = waited /\ pc' \in {"enable_wait", "done"}
            /\ pc' \in {"cmd_wait", "enable_wait", "done"}]_vars

C25_Witness ==
    /\ pc = "done" /\ op = "enable"
    /\ event.at = "cmd_wait" /\ event.kind = "connlost"
    /\ result.type = "Disconnected"
    /\ written = <<EnableLine>>

\* How often a line occurs in a sequence of lines.
Count(ls, line) == Cardinality({m \in 1..Len(ls) : ls[m] = line})

WrittenOnce ==
    /\ op \in {"run_command", "exit"}
          => /\ Len(written) <= 1 /\ Len(waited) <= 1
             /\ Len(written) = 1 => written = <<strip(call.command) \o <<"\n">> >>
    /\ op = "login"
          => Len(written) <= 2 /\ Count(written, PasswordLine) <= 1
    /\ op = "enable"
          => Len(written) <= 2 /\ Count(written, device.enable_password \o <<"\n">>) <= 1

\* C27 as stated: no retry, and after a timeout or a connection loss the
\* operation settles with a failure without a further write or wait.
C27_NoRetryAlwaysFailure ==
    /\ []WrittenOnce
    /\ [][event'.kind \in {"timeout", "connlost"}
            => /\ pc' = "done"
               /\ ~result'.ok
               /\ written' = written
               /\ waited' = waited]_vars

\* C27, amended: one run_command writes at most once (the trimmed command and
\* one line terminator) and waits at most once, login writes the password at
\* most once, enable the enable password at most once; after a timeout or a
\* connection loss the operation settles without a further write or wait, with
\* a failure unless the connection loss is accepted under _may_disconnect.
C27_NoRetry ==
    /\ []WrittenOnce
    /\ [][event'.kind \in {"timeout", "connlost"}
            => /\ pc' = "done"
               /\ result'.ok
                     => (event'.kind = "connlost" /\ pc = "cmd_wait"
                           /\ call._may_disconnect)
               /\ written' = written
               /\ waited' = waited]_vars

C27_Witness ==
    /\ pc = "done" /\ op = "run_command"
    /\ event.kind = "connlost" /\ call._may_disconnect
    /\ result.ok
    /\ call.command = CmdShPadded
    /\ written = <<LineEcho \o <<"\n">> >>
    /\ Len(waited) = 1

\* C28: whenever the classifier reports an error, the error lines are not
\* empty and hold the '%'-line that was detected, and that occurrence of the
\* line is gone from the surviving output, wherever the '%'-line stands, a
\* marker line at the head of the text included.
C28_ErrorLineExtracted ==
    \A i \in 1..Len(response) :
        (classified # Unclassified /\ classified.found /\ FirstErrorAt(i))
            => /\ classified.error_lines # <<>>
               /\ Count(classified.error_lines, response[i]) >= 1
               /\ Count(classified.data_lines, response[i]) + 1
                     <= Count(response, response[i])

\* C29: whenever the classifier reports an error, the error lines and the
\* surviving lines partition the lines of the text: every occurrence of a line
\* is in exactly one of the two, so the two lengths add up to the number of
\* lines, for every text and every position of the banner.
C29_LinesPartitioned ==
    (classified # Unclassified /\ classified.found)
        => /\ Len(classified.error_lines) + Len(classified.data_lines) = Len(response)
           /\ \A k \in 1..Len(response) :
                 Count(classified.error_lines, response[k])
                    + Count(classified.data_lines, response[k])
                       = Count(response, response[k])

====
